---- MODULE Spec2Model ----
(***************************************************************************)
(* Model of src/src/dpp/dave/codec_utils.cpp: the per-codec partitioning   *)
(* of an encoded media frame into unencrypted and encrypted byte ranges,   *)
(* the H.26x start-code scanner, the H.264 Exp-Golomb prefix calculator    *)
(* and the post-encryption start-code validator.                           *)
(*                                                                         *)
(* size_t / uint64_t values are represented by an integer n that stands    *)
(* for n when n >= 0 and for 2^64 + n when n < 0.  Addition and            *)
(* subtraction of such representatives are exact modulo 2^64 as long as    *)
(* the representatives stay small, which they do for the frames modelled   *)
(* here; the unsigned comparisons of the source are ULt / UGt / UMin.      *)
(* Buffers are sequences of bytes; the source's buffer[i] is At(buffer, i).*)
(***************************************************************************)
EXTENDS Integers, Sequences, FiniteSets, TLC

VARIABLES
    pc,                     \* position of the running routine
    buffer,                 \* FindNextH26XNaluIndex: buffer (bufferSize = Len)
    searchStartIndex,       \* FindNextH26XNaluIndex: searchStartIndex
    scanI,                  \* FindNextH26XNaluIndex: loop variable i
    scanResult,             \* FindNextH26XNaluIndex: returned optional pair
    payload,                \* BytesCoveringH264PPS: payload (sizeRemaining = Len)
    payloadBitIndex,        \* BytesCoveringH264PPS: payloadBitIndex
    zeroBitCount,           \* BytesCoveringH264PPS: zeroBitCount
    parsedExpGolombValues,  \* BytesCoveringH264PPS: parsedExpGolombValues
    golombResult,           \* BytesCoveringH264PPS: returned byte count
    codec,                  \* outbound_frame_processor: codec identity
    frame,                  \* the frame handed to process_frame_*
    cursor,                 \* outbound_frame_processor: bytes consumed so far
    ranges,                 \* outbound_frame_processor: recorded unencrypted ranges
    calls,                  \* add_*_bytes calls received, in emission order
    naluIndexPair,          \* process_frame_h264/h265: naluIndexPair
    obuI,                   \* process_frame_av1: loop variable i
    encFrame,               \* the buffer handed to validate_encrypted_frame
    valid                   \* validate_encrypted_frame: returned value

vars == << pc, buffer, searchStartIndex, scanI, scanResult, payload,
           payloadBitIndex, zeroBitCount, parsedExpGolombValues, golombResult,
           codec, frame, cursor, ranges, calls, naluIndexPair, obuI,
           encFrame, valid >>

scanVars == << buffer, searchStartIndex, scanI, scanResult >>
golombVars == << payload, payloadBitIndex, zeroBitCount,
                 parsedExpGolombValues, golombResult >>
frameVars == << codec, frame, cursor, ranges, calls, naluIndexPair, obuI >>
validVars == << encFrame, valid >>

----------------------------------------------------------------------------
(* Bounds of the model. *)

MaxScanLen == 6
MaxGolombLen == 6

----------------------------------------------------------------------------
(* Bytes, buffers and size_t arithmetic. *)

None == << >>

At(buf, i) == buf[i + 1]

\* Unsigned order on size_t representatives: 0 <= n stands for n, n < 0 for 2^64 + n.
ULt(a, b) ==
    IF (a >= 0) = (b >= 0) THEN a < b ELSE a >= 0

UGt(a, b) == ULt(b, a)

UGe(a, b) == ~ULt(a, b)

UMin(a, b) == IF ULt(b, a) THEN b ELSE a

RECURSIVE SeqsUpTo(_, _)
SeqsUpTo(S, n) ==
    IF n = 0 THEN { << >> }
    ELSE LET shorter == SeqsUpTo(S, n - 1)
         IN  shorter \cup { Append(s, x) : s \in { t \in shorter : Len(t) = n - 1 }, x \in S }

\* buffer + from, of the given size (a pointer into the same storage)
Window(buf, from, size) == SubSeq(buf, from + 1, from + size)

\* Values of the variables a specification does not use.
ScanUnused ==
    /\ buffer = << >>
    /\ searchStartIndex = 0
    /\ scanI = 0
    /\ scanResult = None

GolombUnused ==
    /\ payload = << >>
    /\ payloadBitIndex = 0
    /\ zeroBitCount = 0
    /\ parsedExpGolombValues = 0
    /\ golombResult = 0

FrameUnused ==
    /\ codec = "none"
    /\ frame = << >>
    /\ cursor = 0
    /\ ranges = << >>
    /\ calls = << >>
    /\ naluIndexPair = None
    /\ obuI = 0

ValidUnused ==
    /\ encFrame = << >>
    /\ valid = TRUE

----------------------------------------------------------------------------
(* FindNextH26XNaluIndex, codec_utils.cpp:85-132 *)

kH26XNaluLongStartCode == << 0, 0, 0, 1 >>
kH26XNaluShortStartSequenceSize == 3
kH26XStartCodeHighestPossibleValue == 1
kH26XStartCodeEndByteValue == 1
kH26XStartCodeLeadingBytesValue == 0

\* the loop condition of the for statement (line 101)
ScanLoopCond(buf, i) == ULt(i, Len(buf) - kH26XNaluShortStartSequenceSize)

\* one iteration of the loop body (lines 102-128): either a return value or the next i
ScanBody(buf, i) ==
    IF At(buf, i + 2) > kH26XStartCodeHighestPossibleValue
    THEN [ret |-> FALSE, i |-> i + kH26XNaluShortStartSequenceSize, val |-> None]
    ELSE IF At(buf, i + 2) = kH26XStartCodeEndByteValue
    THEN IF /\ At(buf, i + 1) = kH26XStartCodeLeadingBytesValue
            /\ At(buf, i) = kH26XStartCodeLeadingBytesValue
         THEN LET nalUnitStartIndex == i + kH26XNaluShortStartSequenceSize
              IN  IF i >= 1 /\ At(buf, i - 1) = kH26XStartCodeLeadingBytesValue
                  THEN [ret |-> TRUE, i |-> i, val |-> << nalUnitStartIndex, 4 >>]
                  ELSE [ret |-> TRUE, i |-> i, val |-> << nalUnitStartIndex, 3 >>]
         ELSE [ret |-> FALSE, i |-> i + kH26XNaluShortStartSequenceSize, val |-> None]
    ELSE [ret |-> FALSE, i |-> i + 1, val |-> None]

RECURSIVE ScanLoop(_, _)
ScanLoop(buf, i) ==
    IF ~ScanLoopCond(buf, i) THEN None
    ELSE LET b == ScanBody(buf, i)
         IN  IF b.ret THEN b.val ELSE ScanLoop(buf, b.i)

FindNextH26XNaluIndex(buf, start) ==
    IF Len(buf) < kH26XNaluShortStartSequenceSize THEN None
    ELSE ScanLoop(buf, start)

\* The scanner run one loop iteration at a time.
ScanBytes == { 0, 1, 2 }

InitScan ==
    /\ pc = "scan_entry"
    /\ buffer \in SeqsUpTo(ScanBytes, MaxScanLen)
    /\ searchStartIndex \in 0 .. Len(buffer)
    /\ scanI = 0
    /\ scanResult = None
    /\ GolombUnused
    /\ FrameUnused
    /\ ValidUnused

\* lines 96-101: the size check and the loop initialisation
ScanEntry ==
    /\ pc = "scan_entry"
    /\ IF Len(buffer) < kH26XNaluShortStartSequenceSize
       THEN /\ pc' = "scan_done"
            /\ scanResult' = None
            /\ scanI' = scanI
       ELSE /\ pc' = "scan_loop"
            /\ scanI' = searchStartIndex
            /\ scanResult' = scanResult
    /\ UNCHANGED << buffer, searchStartIndex, golombVars, frameVars, validVars >>

\* lines 101-129: one iteration that does not return
ScanIterate ==
    /\ pc = "scan_loop"
    /\ ScanLoopCond(buffer, scanI)
    /\ ~ScanBody(buffer, scanI).ret
    /\ scanI' = ScanBody(buffer, scanI).i
    /\ UNCHANGED << pc, buffer, searchStartIndex, scanResult, golombVars,
                    frameVars, validVars >>

\* lines 111-120: a confirmed start sequence is returned
ScanFound ==
    /\ pc = "scan_loop"
    /\ ScanLoopCond(buffer, scanI)
    /\ ScanBody(buffer, scanI).ret
    /\ scanResult' = ScanBody(buffer, scanI).val
    /\ pc' = "scan_done"
    /\ UNCHANGED << buffer, searchStartIndex, scanI, golombVars, frameVars,
                    validVars >>

\* line 131: the loop ran out
ScanExhausted ==
    /\ pc = "scan_loop"
    /\ ~ScanLoopCond(buffer, scanI)
    /\ scanResult' = None
    /\ pc' = "scan_done"
    /\ UNCHANGED << buffer, searchStartIndex, scanI, golombVars, frameVars,
                    validVars >>

NextScan == ScanEntry \/ ScanIterate \/ ScanFound \/ ScanExhausted

SpecScan == InitScan /\ [][NextScan]_vars

----------------------------------------------------------------------------
(* C3 *)

\* a complete marker 00 00 01 sits at index p of buf
MarkerAt(buf, p) ==
    /\ p >= 0
    /\ p + 3 <= Len(buf)
    /\ At(buf, p) = 0 /\ At(buf, p + 1) = 0 /\ At(buf, p + 2) = 1

MarkersFrom(buf, start) == { p \in start .. Len(buf) : MarkerAt(buf, p) }

FirstMarker(buf, start) ==
    CHOOSE p \in MarkersFrom(buf, start) : \A q \in MarkersFrom(buf, start) : p <= q

ReferenceScan(buf, start) ==
    IF MarkersFrom(buf, start) = {} THEN None
    ELSE LET p == FirstMarker(buf, start)
         IN  << p + 3, IF p >= 1 /\ At(buf, p - 1) = 0 THEN 4 ELSE 3 >>

\* C3: FindNextH26XNaluIndex returns (p + 3, L) for the smallest p >= start at
\* which a complete 00 00 01 fits in the buffer (p + 3 <= length), L = 4 when
\* the byte before p is 00 and 3 otherwise, and "none" exactly when there is no
\* such p: its result equals the byte-by-byte reference scan.
C3_ScannerEqualsReference ==
    pc = "scan_done" => scanResult = ReferenceScan(buffer, searchStartIndex)

----------------------------------------------------------------------------
(* BytesCoveringH264PPS, codec_utils.cpp:34-83 *)

kEmulationPreventionByte == 3
kGolombValues == 3
kMaxZeroBitCount == 32

\* bit k (0 = least significant) of a byte
Bit(b, k) == (b \div (2 ^ k)) % 2

\* the loop condition (line 47)
GolombLoopCond(buf, bitIdx, parsed) ==
    ULt(bitIdx, Len(buf) * 8) /\ parsed < kGolombValues

\* lines 55-61: a new byte that is an emulation prevention byte
GolombAtEmulationByte(buf, bitIdx) ==
    LET bitIndex == bitIdx % 8
        byteIndex == bitIdx \div 8
    IN  /\ bitIndex = 0
        /\ byteIndex >= 2
        /\ At(buf, byteIndex) = kEmulationPreventionByte
        /\ At(buf, byteIndex - 1) = 0
        /\ At(buf, byteIndex - 2) = 0

\* one iteration of the loop body (lines 48-78)
GolombBody(buf, bitIdx, zeros, parsed) ==
    LET bitIndex == bitIdx % 8
        byteIndex == bitIdx \div 8
        payloadByte == At(buf, byteIndex)
    IN  IF GolombAtEmulationByte(buf, bitIdx)
        THEN [throw |-> FALSE, bitIdx |-> bitIdx + 8, zeros |-> zeros, parsed |-> parsed]
        ELSE IF Bit(payloadByte, 7 - bitIndex) = 0
        THEN [throw |-> zeros + 1 >= kMaxZeroBitCount, bitIdx |-> bitIdx + 1,
              zeros |-> zeros + 1, parsed |-> parsed]
        ELSE [throw |-> FALSE, bitIdx |-> bitIdx + 1 + zeros, zeros |-> 0,
              parsed |-> parsed + 1]

\* line 82
GolombReturnValue(bitIdx) == (bitIdx \div 8) + 1

Thrown == -1

RECURSIVE GolombLoop(_, _, _, _)
GolombLoop(buf, bitIdx, zeros, parsed) ==
    IF ~GolombLoopCond(buf, bitIdx, parsed) THEN GolombReturnValue(bitIdx)
    ELSE LET b == GolombBody(buf, bitIdx, zeros, parsed)
         IN  IF b.throw THEN Thrown
             ELSE GolombLoop(buf, b.bitIdx, b.zeros, b.parsed)

\* the returned byte count, or Thrown for the length_exception of line 69
BytesCoveringH264PPS(buf) == GolombLoop(buf, 0, 0, 0)

\* The calculator run one loop iteration at a time.
GolombBytes == { 0, 3, 128, 224 }

InitGolomb ==
    /\ pc = "golomb_loop"
    /\ payload \in { b \in SeqsUpTo(GolombBytes, MaxGolombLen) : Len(b) >= 1 }
    /\ payloadBitIndex = 0
    /\ zeroBitCount = 0
    /\ parsedExpGolombValues = 0
    /\ golombResult = 0
    /\ ScanUnused
    /\ FrameUnused
    /\ ValidUnused

GolombStep(b) ==
    /\ payloadBitIndex' = b.bitIdx
    /\ zeroBitCount' = b.zeros
    /\ parsedExpGolombValues' = b.parsed
    /\ pc' = IF b.throw THEN "golomb_throw" ELSE "golomb_loop"
    /\ UNCHANGED << payload, golombResult, scanVars, frameVars, validVars >>

\* lines 55-60: skip an emulation prevention byte
GolombSkipEmulationByte ==
    /\ pc = "golomb_loop"
    /\ GolombLoopCond(payload, payloadBitIndex, parsedExpGolombValues)
    /\ GolombAtEmulationByte(payload, payloadBitIndex)
    /\ GolombStep(GolombBody(payload, payloadBitIndex, zeroBitCount, parsedExpGolombValues))

\* lines 63-71: a zero bit of the leading run (the run of 32 throws)
GolombZeroBit ==
    /\ pc = "golomb_loop"
    /\ GolombLoopCond(payload, payloadBitIndex, parsedExpGolombValues)
    /\ ~GolombAtEmulationByte(payload, payloadBitIndex)
    /\ Bit(At(payload, payloadBitIndex \div 8), 7 - (payloadBitIndex % 8)) = 0
    /\ GolombStep(GolombBody(payload, payloadBitIndex, zeroBitCount, parsedExpGolombValues))

\* lines 72-78: the one bit that ends the run; the value's remaining bits are skipped
GolombOneBit ==
    /\ pc = "golomb_loop"
    /\ GolombLoopCond(payload, payloadBitIndex, parsedExpGolombValues)
    /\ ~GolombAtEmulationByte(payload, payloadBitIndex)
    /\ Bit(At(payload, payloadBitIndex \div 8), 7 - (payloadBitIndex % 8)) = 1
    /\ GolombStep(GolombBody(payload, payloadBitIndex, zeroBitCount, parsedExpGolombValues))

\* line 82
GolombReturn ==
    /\ pc = "golomb_loop"
    /\ ~GolombLoopCond(payload, payloadBitIndex, parsedExpGolombValues)
    /\ golombResult' = GolombReturnValue(payloadBitIndex)
    /\ pc' = "golomb_done"
    /\ UNCHANGED << payload, payloadBitIndex, zeroBitCount, parsedExpGolombValues,
                    scanVars, frameVars, validVars >>

NextGolomb == GolombSkipEmulationByte \/ GolombZeroBit \/ GolombOneBit \/ GolombReturn

SpecGolomb == InitGolomb /\ [][NextGolomb]_vars

----------------------------------------------------------------------------
(* C6 *)

IsEmulationByte(buf, k) ==
    k >= 2 /\ At(buf, k) = 3 /\ At(buf, k - 1) = 0 /\ At(buf, k - 2) = 0

\* the data bits of the payload, MSB first, each with the index of its byte
RECURSIVE DataBitsFrom(_, _)
DataBitsFrom(buf, k) ==
    IF k >= Len(buf) THEN << >>
    ELSE IF IsEmulationByte(buf, k) THEN DataBitsFrom(buf, k + 1)
    ELSE [j \in 1 .. 8 |-> [bit |-> Bit(At(buf, k), 8 - j), byte |-> k]]
            \o DataBitsFrom(buf, k + 1)

\* position (1-based) of the first one bit at or after position from, 0 if none
RECURSIVE FirstOne(_, _)
FirstOne(bits, from) ==
    IF from > Len(bits) THEN 0
    ELSE IF bits[from].bit = 1 THEN from
    ELSE FirstOne(bits, from + 1)

\* position of the last bit of the n-th Exp-Golomb value that starts at position
\* from: a run of z zero bits, a one bit, z further bits; 0 if it does not fit
RECURSIVE EndOfValues(_, _, _)
EndOfValues(bits, from, n) ==
    LET one == FirstOne(bits, from)
        last == one + (one - from)
    IN  IF one = 0 \/ last > Len(bits) THEN 0
        ELSE IF n = 1 THEN last
        ELSE EndOfValues(bits, last + 1, n - 1)

ReferenceGolombBytes(buf) ==
    LET bits == DataBitsFrom(buf, 0)
        last == EndOfValues(bits, 1, 3)
    IN  IF last = 0 THEN 0 ELSE bits[last].byte + 1

\* C6: BytesCoveringH264PPS returns exactly the number of payload bytes that
\* cover the three Exp-Golomb values (emulation prevention bytes carrying no
\* data bits), and never more than the remaining length.
C6_GolombPrefixExact ==
    pc = "golomb_done" =>
        /\ golombResult <= Len(payload)
        /\ ReferenceGolombBytes(payload) # 0 =>
                golombResult = ReferenceGolombBytes(payload)

----------------------------------------------------------------------------
(* outbound_frame_processor: the accumulator the partitioners write to.    *)
(* A call names its source (the frame at an offset, or a buffer local to   *)
(* the partitioner with its bytes) and its length.                         *)

FrameBytes(off, size) ==
    [kind |-> "frame", off |-> off, size |-> size, data |-> << >>]

LocalBytes(data) ==
    [kind |-> "local", off |-> 0, size |-> Len(data), data |-> data]

CurrentAcc == [cursor |-> cursor, ranges |-> ranges, calls |-> calls]

SetAcc(acc) ==
    /\ cursor' = acc.cursor
    /\ ranges' = acc.ranges
    /\ calls' = acc.calls

add_unencrypted_bytes(acc, bytes) ==
    [cursor |-> acc.cursor + bytes.size,
     ranges |-> Append(acc.ranges, [offset |-> acc.cursor, size |-> bytes.size]),
     calls  |-> Append(acc.calls, [encrypted |-> FALSE, bytes |-> bytes])]

add_encrypted_bytes(acc, bytes) ==
    [cursor |-> acc.cursor + bytes.size,
     ranges |-> acc.ranges,
     calls  |-> Append(acc.calls, [encrypted |-> TRUE, bytes |-> bytes])]

----------------------------------------------------------------------------
(* process_frame_opus, process_frame_vp8, process_frame_vp9,               *)
(* codec_utils.cpp:134-178                                                 *)

kVP8KeyFrameUnencryptedBytes == 10
kVP8DeltaFrameUnencryptedBytes == 1

process_frame_opus(acc, f) == add_encrypted_bytes(acc, FrameBytes(0, Len(f)))

process_frame_vp9(acc, f) == add_encrypted_bytes(acc, FrameBytes(0, Len(f)))

\* lines 158-164: the prefix length decided by bit 0 of the first byte
VP8UnencryptedHeaderBytes(firstByte) ==
    IF Bit(firstByte, 0) = 0 THEN kVP8KeyFrameUnencryptedBytes
    ELSE kVP8DeltaFrameUnencryptedBytes

\* the encrypted remainder given the whole frame length
VP8Emit_Mutant(acc, f, unencryptedHeaderBytes) ==
    add_encrypted_bytes(
        add_unencrypted_bytes(acc, FrameBytes(0, unencryptedHeaderBytes)),
        FrameBytes(unencryptedHeaderBytes, Len(f)))

\* lines 166-168
VP8Emit(acc, f, unencryptedHeaderBytes) ==
    add_encrypted_bytes(
        add_unencrypted_bytes(acc, FrameBytes(0, unencryptedHeaderBytes)),
        FrameBytes(unencryptedHeaderBytes, Len(f) - unencryptedHeaderBytes))

\* frame.data()[0] of an empty frame is a read outside the buffer: any byte
VP8FirstBytes(f) == IF Len(f) >= 1 THEN { At(f, 0) } ELSE { 0, 1 }

ProcessOpus ==
    /\ pc = "entry" /\ codec = "opus"
    /\ SetAcc(process_frame_opus(CurrentAcc, frame))
    /\ pc' = "done"
    /\ UNCHANGED << codec, frame, naluIndexPair, obuI, scanVars, golombVars, validVars >>

ProcessVP8 ==
    /\ pc = "entry" /\ codec = "vp8"
    /\ \E b \in VP8FirstBytes(frame) :
            SetAcc(VP8Emit(CurrentAcc, frame, VP8UnencryptedHeaderBytes(b)))
    /\ pc' = "done"
    /\ UNCHANGED << codec, frame, naluIndexPair, obuI, scanVars, golombVars, validVars >>

ProcessVP9 ==
    /\ pc = "entry" /\ codec = "vp9"
    /\ SetAcc(process_frame_vp9(CurrentAcc, frame))
    /\ pc' = "done"
    /\ UNCHANGED << codec, frame, naluIndexPair, obuI, scanVars, golombVars, validVars >>

----------------------------------------------------------------------------
(* process_frame_h264, codec_utils.cpp:180-235 *)

kH264NalHeaderTypeMask == 31
kH264NalTypeSlice == 1
kH264NalTypeIdr == 5
kH264NalUnitHeaderSize == 1

\* line 196
H264FrameTooSmall(f) ==
    Len(f) < kH26XNaluShortStartSequenceSize + kH264NalUnitHeaderSize

\* line 201 (and 257): the condition of the unit loop
NaluLoopCond(f, pair) == pair # None /\ ULt(pair[1], Len(f) - 1)

\* lines 212-213: the next unit and where the current one ends
NextNaluIndexPair(f, nalUnitStartIndex) == FindNextH26XNaluIndex(f, nalUnitStartIndex)

NextNaluStart(f, nextPair) ==
    IF nextPair # None THEN nextPair[1] - nextPair[2] ELSE Len(f)

\* line 204
H264NalType(b) == b % (kH264NalHeaderTypeMask + 1)

\* lines 202-231: one iteration of the unit loop
H264Unit(acc, f, pair) ==
    LET nalUnitStartIndex == pair[1]
        nalType == H264NalType(At(f, nalUnitStartIndex))
        acc1 == add_unencrypted_bytes(acc, LocalBytes(kH26XNaluLongStartCode))
        nextNaluIndexPair == NextNaluIndexPair(f, nalUnitStartIndex)
        nextNaluStart == NextNaluStart(f, nextNaluIndexPair)
        nalUnitPayloadStart == nalUnitStartIndex + kH264NalUnitHeaderSize
        nalUnitPPSBytes ==
            BytesCoveringH264PPS(Window(f, nalUnitPayloadStart, Len(f) - nalUnitPayloadStart))
    IN  IF nalType = kH264NalTypeSlice \/ nalType = kH264NalTypeIdr
        THEN IF nalUnitPPSBytes = Thrown
             THEN [throw |-> TRUE, acc |-> acc1, next |-> pair]
             ELSE [throw |-> FALSE,
                   acc |-> add_encrypted_bytes(
                        add_unencrypted_bytes(acc1,
                            FrameBytes(nalUnitStartIndex,
                                       kH264NalUnitHeaderSize + nalUnitPPSBytes)),
                        FrameBytes(nalUnitStartIndex + kH264NalUnitHeaderSize + nalUnitPPSBytes,
                                   nextNaluStart - nalUnitStartIndex
                                        - kH264NalUnitHeaderSize - nalUnitPPSBytes)),
                   next |-> nextNaluIndexPair]
        ELSE [throw |-> FALSE,
              acc |-> add_unencrypted_bytes(acc1,
                        FrameBytes(nalUnitStartIndex, nextNaluStart - nalUnitStartIndex)),
              next |-> nextNaluIndexPair]

\* lines 196-200
H264Entry ==
    /\ pc = "entry" /\ codec = "h264"
    /\ IF H264FrameTooSmall(frame)
       THEN pc' = "length_error" /\ naluIndexPair' = naluIndexPair
       ELSE pc' = "nalu_loop" /\ naluIndexPair' = FindNextH26XNaluIndex(frame, 0)
    /\ UNCHANGED << codec, frame, cursor, ranges, calls, obuI, scanVars, golombVars,
                    validVars >>

H264Iterate ==
    /\ pc = "nalu_loop" /\ codec = "h264"
    /\ NaluLoopCond(frame, naluIndexPair)
    /\ LET u == H264Unit(CurrentAcc, frame, naluIndexPair)
       IN  /\ SetAcc(u.acc)
           /\ naluIndexPair' = u.next
           /\ pc' = IF u.throw THEN "length_error" ELSE "nalu_loop"
    /\ UNCHANGED << codec, frame, obuI, scanVars, golombVars, validVars >>

\* line 234 (and 283)
NaluReturn ==
    /\ pc = "nalu_loop"
    /\ ~NaluLoopCond(frame, naluIndexPair)
    /\ pc' = "done"
    /\ UNCHANGED << frameVars, scanVars, golombVars, validVars >>

----------------------------------------------------------------------------
(* process_frame_h265, codec_utils.cpp:237-284 *)

kH265NalHeaderTypeMask == 126
kH265NalTypeVclCutoff == 32
kH265NalUnitHeaderSize == 2

\* the minimum computed with the 1-byte H.264 header size
H265FrameTooSmall_Mutant(f) ==
    Len(f) < kH26XNaluShortStartSequenceSize + kH264NalUnitHeaderSize

\* line 251
H265FrameTooSmall(f) ==
    Len(f) < kH26XNaluShortStartSequenceSize + kH265NalUnitHeaderSize

\* line 260: (byte & 0x7E) >> 1
H265NalType(b) == (b % 128) \div 2

\* lines 258-280: one iteration of the unit loop
H265Unit(acc, f, pair) ==
    LET nalUnitStartIndex == pair[1]
        nalType == H265NalType(At(f, nalUnitStartIndex))
        acc1 == add_unencrypted_bytes(acc, LocalBytes(kH26XNaluLongStartCode))
        nextNaluIndexPair == NextNaluIndexPair(f, nalUnitStartIndex)
        nextNaluStart == NextNaluStart(f, nextNaluIndexPair)
    IN  IF nalType < kH265NalTypeVclCutoff
        THEN [acc |-> add_encrypted_bytes(
                        add_unencrypted_bytes(acc1,
                            FrameBytes(nalUnitStartIndex, kH265NalUnitHeaderSize)),
                        FrameBytes(nalUnitStartIndex + kH265NalUnitHeaderSize,
                                   nextNaluStart - nalUnitStartIndex - kH265NalUnitHeaderSize)),
              next |-> nextNaluIndexPair]
        ELSE [acc |-> add_unencrypted_bytes(acc1,
                        FrameBytes(nalUnitStartIndex, nextNaluStart - nalUnitStartIndex)),
              next |-> nextNaluIndexPair]

\* lines 251-256
H265Entry ==
    /\ pc = "entry" /\ codec = "h265"
    /\ IF H265FrameTooSmall(frame)
       THEN pc' = "length_error" /\ naluIndexPair' = naluIndexPair
       ELSE pc' = "nalu_loop" /\ naluIndexPair' = FindNextH26XNaluIndex(frame, 0)
    /\ UNCHANGED << codec, frame, cursor, ranges, calls, obuI, scanVars, golombVars,
                    validVars >>

H265Iterate ==
    /\ pc = "nalu_loop" /\ codec = "h265"
    /\ NaluLoopCond(frame, naluIndexPair)
    /\ LET u == H265Unit(CurrentAcc, frame, naluIndexPair)
       IN  /\ SetAcc(u.acc)
           /\ naluIndexPair' = u.next
    /\ UNCHANGED << pc, codec, frame, obuI, scanVars, golombVars, validVars >>

----------------------------------------------------------------------------
(* leb128.h: read_leb128 / write_leb128, the unsigned 64-bit variable      *)
(* length integer codec used by process_frame_av1.                         *)

LEB128_MAX_SIZE == 10

\* A decoded value that is neither within HugeSize of 0 nor within HugeSize of
\* 2^64 is represented by HugeSize itself.
HugeSize == 2 ^ 24

Saturate(x) == IF x >= HugeSize THEN HugeSize ELSE x

\* number of bytes of the encoding that starts at offset from: the bytes up to
\* and including the first one without the continuation bit, at most
\* LEB128_MAX_SIZE, the last of which may only carry the 64th bit; 0 if unreadable
RECURSIVE Leb128Length(_, _, _)
Leb128Length(buf, from, n) ==
    IF from + n >= Len(buf) THEN 0
    ELSE IF n = LEB128_MAX_SIZE - 1
    THEN IF At(buf, from + n) <= 1 THEN n + 1 ELSE 0
    ELSE IF At(buf, from + n) < 128 THEN n + 1
    ELSE Leb128Length(buf, from, n + 1)

\* group k of the encoding at offset from: the low 7 bits of its byte, or
\* their complement
Leb128Group(buf, from, k, complement) ==
    IF complement THEN 127 - (At(buf, from + k) % 128) ELSE At(buf, from + k) % 128

\* sum of group(j) * 128^(j-k) over the groups k .. n-1, saturated at HugeSize
RECURSIVE GroupSum(_, _, _, _, _)
GroupSum(buf, from, k, n, complement) ==
    IF k >= n THEN 0
    ELSE LET high == GroupSum(buf, from, k + 1, n, complement)
         IN  IF high >= HugeSize THEN HugeSize
             ELSE Saturate(high * 128 + Leb128Group(buf, from, k, complement))

\* the decoded value as a size_t representative: a value with the 64th bit set
\* is 2^64 - 1 - (the complement of its low 63 bits)
Leb128Value(buf, from, n) ==
    IF n = LEB128_MAX_SIZE /\ At(buf, from + n - 1) = 1
    THEN LET comp == GroupSum(buf, from, 0, n - 1, TRUE)
         IN  IF comp >= HugeSize THEN HugeSize ELSE -1 - comp
    ELSE GroupSum(buf, from, 0, n, FALSE)

read_leb128(buf, from) ==
    LET n == Leb128Length(buf, from, 0)
    IN  IF n = 0 THEN [ok |-> FALSE, value |-> 0, size |-> 0]
        ELSE [ok |-> TRUE, value |-> Leb128Value(buf, from, n), size |-> n]

RECURSIVE Leb128Groups(_)
Leb128Groups(v) ==
    IF v < 128 THEN << v >>
    ELSE << 128 + (v % 128) >> \o Leb128Groups(v \div 128)

\* the canonical encoding of a size_t representative (HugeSize is never written:
\* a payload of that size does not fit a frame)
write_leb128(v) ==
    IF v >= 0 THEN Leb128Groups(v)
    ELSE LET comp == -1 - v
             low == Leb128Groups(comp)
         IN  [k \in 1 .. LEB128_MAX_SIZE |->
                IF k = LEB128_MAX_SIZE THEN 1
                ELSE 128 + (127 - (IF k <= Len(low) THEN low[k] % 128 ELSE 0))]

----------------------------------------------------------------------------
(* process_frame_av1, codec_utils.cpp:286-380 *)

kObuTypeTemporalDelimiter == 2
kObuTypeTileList == 8
kObuTypePadding == 15
kObuExtensionSizeBytes == 1

\* lines 303-305: the fields of the header byte
ObuHasExtension(h) == Bit(h, 2) = 1
ObuHasSize(h) == Bit(h, 1) = 1
ObuType(h) == (h \div 8) % 16

\* the header written as it was read
ClearHasSize_Mutant(h) == h

\* line 352: obuHeader &= ~kAv1ObuHeaderHasSizeMask
ClearHasSize(h) == IF ObuHasSize(h) THEN h - 2 ELSE h

\* lines 344-345
ObuIsDropped(obuType) ==
    \/ obuType = kObuTypeTemporalDelimiter
    \/ obuType = kObuTypeTileList
    \/ obuType = kObuTypePadding

\* lines 348-375: the calls made for an OBU that is kept
Av1Emit(acc, f, obuHeaderIndex, obuPayloadIndex, obuPayloadSize, i) ==
    LET obuHeader == At(f, obuHeaderIndex)
        obuHasExtension == ObuHasExtension(obuHeader)
        obuHasSize == ObuHasSize(obuHeader)
        rewrittenWithoutSize == i = Len(f) /\ obuHasSize
        header == IF rewrittenWithoutSize THEN ClearHasSize(obuHeader) ELSE obuHeader
        acc1 == add_unencrypted_bytes(acc, LocalBytes(<< header >>))
        acc2 == IF obuHasExtension
                THEN add_unencrypted_bytes(acc1,
                        FrameBytes(obuHeaderIndex + 1, kObuExtensionSizeBytes))
                ELSE acc1
        acc3 == IF obuHasSize /\ ~rewrittenWithoutSize
                THEN add_unencrypted_bytes(acc2, LocalBytes(write_leb128(obuPayloadSize)))
                ELSE acc2
    IN  add_encrypted_bytes(acc3, FrameBytes(obuPayloadIndex, obuPayloadSize))

\* lines 298-376: one iteration of the OBU loop, from offset i0
Av1Obu(acc, f, i0) ==
    LET obuHeaderIndex == i0
        obuHeader == At(f, obuHeaderIndex)
        obuHasExtension == ObuHasExtension(obuHeader)
        obuHasSize == ObuHasSize(obuHeader)
        obuType == ObuType(obuHeader)
        i1 == i0 + 1 + (IF obuHasExtension THEN kObuExtensionSizeBytes ELSE 0)
        leb == read_leb128(f, i1)
        i2 == IF obuHasSize THEN i1 + leb.size ELSE i1
        obuPayloadSize == IF obuHasSize THEN leb.value ELSE Len(f) - i1
        obuPayloadIndex == i2
        i3 == i2 + obuPayloadSize
    IN  IF UGe(i1, Len(f)) THEN [throw |-> TRUE, acc |-> acc, i |-> i1]
        ELSE IF obuHasSize /\ ~leb.ok THEN [throw |-> TRUE, acc |-> acc, i |-> i1]
        ELSE IF UGt(i2 + obuPayloadSize, Len(f)) THEN [throw |-> TRUE, acc |-> acc, i |-> i2]
        ELSE IF ObuIsDropped(obuType) THEN [throw |-> FALSE, acc |-> acc, i |-> i3]
        ELSE [throw |-> FALSE,
              acc |-> Av1Emit(acc, f, obuHeaderIndex, obuPayloadIndex, obuPayloadSize, i3),
              i |-> i3]

\* line 296
Av1Entry ==
    /\ pc = "entry" /\ codec = "av1"
    /\ obuI' = 0
    /\ pc' = "obu_loop"
    /\ UNCHANGED << codec, frame, cursor, ranges, calls, naluIndexPair, scanVars,
                    golombVars, validVars >>

\* the calls of one frame are recorded up to this many
MaxCalls == 12

\* lines 297-377: an iteration that ends without an exception
Av1Iterate ==
    /\ pc = "obu_loop"
    /\ ULt(obuI, Len(frame))
    /\ Len(calls) < MaxCalls
    /\ LET o == Av1Obu(CurrentAcc, frame, obuI)
       IN  /\ ~o.throw
           /\ SetAcc(o.acc)
           /\ obuI' = o.i
    /\ UNCHANGED << pc, codec, frame, naluIndexPair, scanVars, golombVars, validVars >>

\* lines 314, 325, 338: an iteration that throws the logic_exception
Av1Malformed ==
    /\ pc = "obu_loop"
    /\ ULt(obuI, Len(frame))
    /\ Av1Obu(CurrentAcc, frame, obuI).throw
    /\ obuI' = Av1Obu(CurrentAcc, frame, obuI).i
    /\ pc' = "malformed"
    /\ UNCHANGED << codec, frame, cursor, ranges, calls, naluIndexPair, scanVars,
                    golombVars, validVars >>

\* line 379
Av1Return ==
    /\ pc = "obu_loop"
    /\ ~ULt(obuI, Len(frame))
    /\ pc' = "done"
    /\ UNCHANGED << frameVars, scanVars, golombVars, validVars >>

----------------------------------------------------------------------------
(* validate_encrypted_frame, codec_utils.cpp:382-423 *)

Padding == kH26XNaluShortStartSequenceSize - 1

\* lines 403-405 and 416-418: a start code in frame[start, end)
SectionHasStartCode(f, encryptedSectionStart, end) ==
    LET start == encryptedSectionStart - UMin(encryptedSectionStart, Padding)
    IN  FindNextH26XNaluIndex(Window(f, start, end - start), 0) # None

\* lines 397-422: the loop over the unencrypted ranges from the k-th on, and
\* the check of the section after the last range
RECURSIVE ValidateRanges(_, _, _, _)
ValidateRanges(unencryptedRanges, k, encryptedSectionStart, f) ==
    IF k > Len(unencryptedRanges)
    THEN IF encryptedSectionStart = Len(f) THEN TRUE
         ELSE ~SectionHasStartCode(f, encryptedSectionStart, Len(f))
    ELSE LET range == unencryptedRanges[k]
         IN  IF encryptedSectionStart = range.offset
             THEN ValidateRanges(unencryptedRanges, k + 1,
                                 encryptedSectionStart + range.size, f)
             ELSE IF SectionHasStartCode(f, encryptedSectionStart,
                                         UMin(range.offset + Padding, Len(f)))
             THEN FALSE
             ELSE ValidateRanges(unencryptedRanges, k + 1, range.offset + range.size, f)

validate_encrypted_frame(c, unencryptedRanges, f) ==
    IF c # "h264" /\ c # "h265" THEN TRUE
    ELSE ValidateRanges(unencryptedRanges, 1, 0, f)

----------------------------------------------------------------------------
(* The caller of the partitioners: the frame reconstructed from the        *)
(* accumulator with its encrypted bytes replaced by ciphertext, handed to  *)
(* validate_encrypted_frame.                                               *)

\* every call names bytes of the frame (or of a local buffer), none wrapped
CallsInBounds(cs, f) ==
    \A k \in 1 .. Len(cs) :
        /\ cs[k].bytes.size >= 0
        /\ cs[k].bytes.kind = "frame" => cs[k].bytes.off + cs[k].bytes.size <= Len(f)

RECURSIVE EncryptedSize(_)
EncryptedSize(cs) ==
    IF cs = << >> THEN 0
    ELSE (IF Head(cs).encrypted THEN Head(cs).bytes.size ELSE 0) + EncryptedSize(Tail(cs))

CallData(call, f) ==
    IF call.bytes.kind = "frame" THEN Window(f, call.bytes.off, call.bytes.size)
    ELSE call.bytes.data

\* the bytes of the calls in order, the encrypted ones taken from ciphertext
RECURSIVE Reconstruct(_, _, _)
Reconstruct(cs, f, ciphertext) ==
    IF cs = << >> THEN << >>
    ELSE LET n == Head(cs).bytes.size
         IN  IF Head(cs).encrypted
             THEN SubSeq(ciphertext, 1, n)
                    \o Reconstruct(Tail(cs), f, SubSeq(ciphertext, n + 1, Len(ciphertext)))
             ELSE CallData(Head(cs), f) \o Reconstruct(Tail(cs), f, ciphertext)

CipherBytes == { 0, 1, 2 }

Encrypt ==
    /\ pc = "done"
    /\ codec \in { "h264", "h265" }
    /\ CallsInBounds(calls, frame)
    /\ \E ciphertext \in [1 .. EncryptedSize(calls) -> CipherBytes] :
            encFrame' = Reconstruct(calls, frame, ciphertext)
    /\ pc' = "encrypted"
    /\ UNCHANGED << valid, frameVars, scanVars, golombVars >>

Validate ==
    /\ pc = "encrypted"
    /\ valid' = validate_encrypted_frame(codec, ranges, encFrame)
    /\ pc' = "validated"
    /\ UNCHANGED << encFrame, frameVars, scanVars, golombVars >>

----------------------------------------------------------------------------
(* The frames the partitioners are run on. *)

MaxLenSimple == 11
MaxLenH26X == 9
MaxPayloadLen == 2
MaxLenAV1 == 5

SimpleBytes == { 0, 1 }
H26XBytes == { 0, 1, 101 }
NalHeaderBytes == { 0, 1, 101, 103 }
UnitPayloadBytes == { 0, 224 }
AV1Bytes == { 0, 1, 2, 6, 16, 66, 122, 128 }
AV1SizedHeaders == { 10, 18 }

\* a start code (3 or 4 bytes), a header byte and a short payload
NalUnits ==
    { m \o << h >> \o p :
        m \in { << 0, 0, 1 >>, << 0, 0, 0, 1 >> },
        h \in NalHeaderBytes,
        p \in SeqsUpTo(UnitPayloadBytes, MaxPayloadLen) }

\* an OBU whose size field decodes to 2^64 - k
WideObus ==
    { << h >> \o write_leb128(0 - k) : h \in AV1SizedHeaders, k \in 1 .. LEB128_MAX_SIZE + 1 }

FramesOf(c) ==
    CASE c \in { "opus", "vp8", "vp9" } -> SeqsUpTo(SimpleBytes, MaxLenSimple)
      [] c \in { "h264", "h265" } ->
            SeqsUpTo(H26XBytes, MaxLenH26X)
                \cup NalUnits \cup { u \o v : u \in NalUnits, v \in NalUnits }
      [] c = "av1" -> SeqsUpTo(AV1Bytes, MaxLenAV1) \cup WideObus

InitFrame(codecs) ==
    /\ pc = "entry"
    /\ codec \in codecs
    /\ frame \in FramesOf(codec)
    /\ cursor = 0
    /\ ranges = << >>
    /\ calls = << >>
    /\ naluIndexPair = None
    /\ obuI = 0
    /\ ScanUnused
    /\ GolombUnused
    /\ ValidUnused

\* all six partitioners
Init == InitFrame({ "opus", "vp8", "vp9", "h264", "h265", "av1" })

Next ==
    \/ ProcessOpus
    \/ ProcessVP8
    \/ ProcessVP9
    \/ H264Entry
    \/ H264Iterate
    \/ H265Entry
    \/ H265Iterate
    \/ NaluReturn
    \/ Av1Entry
    \/ Av1Iterate
    \/ Av1Malformed
    \/ Av1Return

Spec == Init /\ [][Next]_vars

\* the H.264 / H.265 partitioners, followed by encryption and validation
InitH26X == InitFrame({ "h264", "h265" })

NextH26X ==
    \/ H264Entry
    \/ H264Iterate
    \/ H265Entry
    \/ H265Iterate
    \/ NaluReturn
    \/ Encrypt
    \/ Validate

SpecH26X == InitH26X /\ [][NextH26X]_vars

\* the AV1 partitioner
InitAV1 == InitFrame({ "av1" })

NextAV1 == Av1Entry \/ Av1Iterate \/ Av1Malformed \/ Av1Return

SpecAV1 == InitAV1 /\ [][NextAV1]_vars

----------------------------------------------------------------------------
(* C1, C2: the ranges the partitioners emit *)

RECURSIVE SizeOfCalls(_)
SizeOfCalls(cs) ==
    IF cs = << >> THEN 0 ELSE Head(cs).bytes.size + SizeOfCalls(Tail(cs))

\* every call that names bytes of the frame starts where the calls before it
\* ended, the first at offset 0
Contiguous(cs) ==
    \A k \in 1 .. Len(cs) :
        cs[k].bytes.kind = "frame" => cs[k].bytes.off = SizeOfCalls(SubSeq(cs, 1, k - 1))

C2_RangesWithinFrame == CallsInBounds(calls, frame)

----------------------------------------------------------------------------
(* C9 *)

\* C9: process_frame_h264 on a frame shorter than 4 bytes and
\* process_frame_h265 on a frame shorter than 5 bytes end in the length error,
\* and the accumulator has then received no call: cursor and ranges unchanged.
C9_ShortFrameRejected ==
    ( /\ pc # "entry"
      /\ \/ codec = "h264" /\ Len(frame) < 4
         \/ codec = "h265" /\ Len(frame) < 5 ) =>
        /\ pc = "length_error"
        /\ calls = << >>
        /\ cursor = 0
        /\ ranges = << >>

C9_Witness ==
    /\ pc = "length_error"
    /\ codec = "h265"
    /\ Len(frame) = 4
    /\ FindNextH26XNaluIndex(frame, 0) # None

----------------------------------------------------------------------------
(* C5, C8: the calls expected for each unit the scanner locates *)

Unencrypted(bytes) == [encrypted |-> FALSE, bytes |-> bytes]
Encrypted(bytes) == [encrypted |-> TRUE, bytes |-> bytes]

UnitEnd(f, start) ==
    LET next == FindNextH26XNaluIndex(f, start)
    IN  IF next = None THEN Len(f) ELSE next[1] - next[2]

ExpectedH264Unit(f, start) ==
    LET type == At(f, start) % 32
        prefix == BytesCoveringH264PPS(Window(f, start + 1, Len(f) - start - 1))
    IN  IF type \in { 1, 5 }
        THEN << Unencrypted(LocalBytes(<< 0, 0, 0, 1 >>)),
                Unencrypted(FrameBytes(start, 1 + prefix)),
                Encrypted(FrameBytes(start + 1 + prefix, UnitEnd(f, start) - start - 1 - prefix)) >>
        ELSE << Unencrypted(LocalBytes(<< 0, 0, 0, 1 >>)),
                Unencrypted(FrameBytes(start, UnitEnd(f, start) - start)) >>

ExpectedH265Unit(f, start) ==
    LET type == (At(f, start) \div 2) % 64
    IN  IF type >= 32
        THEN << Unencrypted(LocalBytes(<< 0, 0, 0, 1 >>)),
                Unencrypted(FrameBytes(start, UnitEnd(f, start) - start)) >>
        ELSE << Unencrypted(LocalBytes(<< 0, 0, 0, 1 >>)),
                Unencrypted(FrameBytes(start, 2)),
                Encrypted(FrameBytes(start + 2, UnitEnd(f, start) - start - 2)) >>

\* the expected calls of the units located from the given one on
RECURSIVE ExpectedUnits(_, _, _)
ExpectedUnits(f, pair, h265) ==
    IF pair = None THEN << >>
    ELSE (IF h265 THEN ExpectedH265Unit(f, pair[1]) ELSE ExpectedH264Unit(f, pair[1]))
            \o ExpectedUnits(f, FindNextH26XNaluIndex(f, pair[1]), h265)

\* C5: for every unit the scanner locates in an H.264 frame, in order: the
\* 4-byte start code unencrypted; then for a slice or IDR unit the header and
\* the Golomb prefix unencrypted and the remainder of the unit encrypted, for
\* any other unit the whole unit unencrypted.
C5_H264UnitPolicy ==
    (pc = "done" /\ codec = "h264") =>
        /\ calls = ExpectedUnits(frame, FindNextH26XNaluIndex(frame, 0), FALSE)
        /\ CallsInBounds(calls, frame)

\* C8: for every unit the scanner locates in an H.265 frame, in order: the
\* 4-byte start code unencrypted; then for a type of 32 or above the whole
\* unit unencrypted, for a type below 32 exactly the 2-byte header unencrypted
\* and the rest of the unit encrypted.
C8_H265UnitPolicy ==
    (pc = "done" /\ codec = "h265") =>
        /\ calls = ExpectedUnits(frame, FindNextH26XNaluIndex(frame, 0), TRUE)
        /\ CallsInBounds(calls, frame)

----------------------------------------------------------------------------
(* C4 *)

\* the bytes of the reconstructed frame that no recorded range covers
IsEncryptedByte(rs, q) ==
    \A k \in 1 .. Len(rs) : ~(rs[k].offset <= q /\ q < rs[k].offset + rs[k].size)

\* a 00 00 01 that lies in an encrypted span or straddles its boundary: with
\* two bytes of padding on either side, any marker that holds an encrypted byte
MarkerTouchesEncryptedSpan(rs, f) ==
    \E p \in 0 .. Len(f) - 3 :
        /\ MarkerAt(f, p)
        /\ \E q \in p .. p + 2 : IsEncryptedByte(rs, q)

\* C4: for an H.264 or H.265 accumulator, validate_encrypted_frame returns
\* failure exactly when a 00 00 01 occurs inside an encrypted span or straddles
\* its padded boundary, wherever in the span it lies, the end of the frame
\* included; it returns success when there is none.
C4_ValidatorDetectsMarkers ==
    pc = "validated" => (valid = ~MarkerTouchesEncryptedSpan(ranges, encFrame))

----------------------------------------------------------------------------
(* C7 *)

\* the payload size a size field of n bytes at offset from denotes, when it is
\* one that fits the frame: the v whose base-128 digits are the low 7 bits of
\* the n bytes; -1 when there is none
Digit(v, k) == IF k >= 4 THEN 0 ELSE (v \div (128 ^ k)) % 128

SizeFieldLength(f, from) ==
    LET ends == { n \in 1 .. 10 : from + n <= Len(f) /\ At(f, from + n - 1) < 128
                                    /\ \A m \in 1 .. n - 1 : At(f, from + m - 1) >= 128 }
    IN  IF ends = {} THEN 0 ELSE CHOOSE n \in ends : TRUE

SizeFieldValue(f, from, n) ==
    LET fits == { v \in 0 .. Len(f) : \A k \in 0 .. n - 1 : Digit(v, k) = At(f, from + k) % 128 }
    IN  IF fits = {} THEN -1 ELSE CHOOSE v \in fits : TRUE

\* the calls expected for the OBUs of a well-formed frame from offset off on,
\* or << "malformed" >> when an OBU does not lie within the frame
RECURSIVE ExpectedObus(_, _)
ExpectedObus(f, off) ==
    IF off = Len(f) THEN << >>
    ELSE LET h == At(f, off)
             extension == (h \div 4) % 2 = 1
             sized == (h \div 2) % 2 = 1
             type == (h \div 8) % 16
             sizeAt == off + 1 + (IF extension THEN 1 ELSE 0)
             n == IF sized /\ sizeAt < Len(f) THEN SizeFieldLength(f, sizeAt) ELSE 0
             payloadAt == sizeAt + n
             size == IF sized THEN (IF n = 0 THEN -1 ELSE SizeFieldValue(f, sizeAt, n))
                     ELSE Len(f) - sizeAt
             end == payloadAt + size
         IN  IF sizeAt > Len(f) \/ size < 0 \/ end > Len(f) THEN << "malformed" >>
             ELSE LET rest == ExpectedObus(f, end)
                      last == end = Len(f)
                      this ==
                        IF type \in { 2, 8, 15 } THEN << >>
                        ELSE << Unencrypted(LocalBytes(
                                    << IF sized /\ last THEN h - 2 ELSE h >>)) >>
                             \o (IF extension
                                 THEN << Unencrypted(FrameBytes(off + 1, 1)) >>
                                 ELSE << >>)
                             \o (IF sized /\ ~last
                                 THEN << Unencrypted(LocalBytes(write_leb128(size))) >>
                                 ELSE << >>)
                             \o << Encrypted(FrameBytes(payloadAt, size)) >>
                  IN  IF rest = << "malformed" >> THEN rest ELSE this \o rest

\* C7: on a well-formed frame process_frame_av1 makes no call for an OBU of
\* type 2, 8 or 15, and for every other OBU emits unencrypted the header byte,
\* the extension byte if flagged, the payload size re-encoded by write_leb128
\* if the size flag is set and the OBU does not end the frame, and the payload
\* encrypted; an OBU with the size flag that ends the frame is emitted with the
\* flag cleared in a copy of its header byte and without size bytes.
C7_Av1ObuOutput ==
    (pc = "done" /\ codec = "av1" /\ ExpectedObus(frame, 0) # << "malformed" >>) =>
        calls = ExpectedObus(frame, 0)

\* a dropped OBU followed by a last OBU whose size flag is cleared, such as
\* 42 00 | 02 01 xx
C7_Witness ==
    /\ pc = "done" /\ codec = "av1"
    /\ ExpectedObus(frame, 0) # << "malformed" >>
    /\ Len(frame) = 5
    /\ ObuIsDropped(ObuType(At(frame, 0)))
    /\ ObuHasSize(At(frame, 2))
    /\ Len(calls) = 2
    /\ calls[1].bytes.data = << At(frame, 2) - 2 >>
    /\ calls[2] = Encrypted(FrameBytes(4, 1))

----------------------------------------------------------------------------
(* C10 *)

\* C10: every loop makes strict progress; for process_frame_av1, the offset
\* grows by at least one byte with every OBU.
C10_Av1OffsetGrows ==
    [][(pc = "obu_loop" /\ pc' = "obu_loop") => UGt(obuI', obuI)]_vars

====
